---------------------------- MODULE Spec2Model ----------------------------
(***************************************************************************)
(* Client side of the chatroom secure channel (web/static/js/res.js):      *)
(* the shared Channel State S, the RSA handshake Res.rs.work and the       *)
(* rekeying request Res.api.work, each cut at its await points, together   *)
(* with the /rs and /api endpoints and the transport as the environment.   *)
(***************************************************************************)
EXTENDS Integers, Sequences, FiniteSets, TLC

(***************************************************************************)
(* Bounds of the model.                                                    *)
(***************************************************************************)
\* total number of calls (Res.rs.work and Res.api.work) the callers issue
MaxOps == 3

\* number of calls (of either kind) that may be pending at once
MaxPending == 2

\* call slots: the pending Res.api.work calls and the pending Res.rs.work
\* calls; a new call takes the first free slot
Calls == {1, 2}
Shakes == {1, 2}

(***************************************************************************)
(* JavaScript values held in S.aes_key and carried as keys.                *)
(* A value is [t, id, len]: t its type, id its identity, len the number of *)
(* bytes TextEncoder gives for it.                                         *)
(***************************************************************************)
Null == [t |-> "null", id |-> 0, len |-> 4]
Undef == [t |-> "undefined", id |-> 0, len |-> 0]
Str(i, l) == [t |-> "str", id |-> i, len |-> l]
EmptyStr == Str(0, 0)

\* keys of a legal AES size the endpoints issue
LegalKeys == {Str(1, 32), Str(2, 16)}
\* a non-empty string that is no AES key
ShortKey == Str(3, 5)
\* everything a decrypted handshake answer can be: RSA.decrypt returns a string
HsKeys == LegalKeys \cup {ShortKey, EmptyStr}
\* everything the key field of a decrypted response can be
RespKeys == LegalKeys \cup {ShortKey, Undef}

\* JavaScript truthiness, as `!S.aes_key` tests it
Truthy(v) ==
    \/ v.t = "str" /\ v.len > 0
    \/ v.t = "sha256"

\* new TextEncoder().encode(v).length
ByteLen(v) == v.len

\* [16, 24, 32].includes(keyBytes.length)
ValidKeyLen(v) == ByteLen(v) \in {16, 24, 32}


(***************************************************************************)
(* Primitive layer.                                                        *)
(***************************************************************************)
\* the bytes TextEncoder gives for a value, by identity: undefined encodes
\* as the empty string, null as the text "null"
Utf8Id(v) ==
    CASE v.t = "str" -> v.id
      [] v.t = "undefined" -> 0
      [] OTHER -> 0 - 1

\* Eec.Hash.sha256: the hex digest of the encoded bytes (collision free)
Sha256(v) == [t |-> "sha256", id |-> Utf8Id(v), len |-> 64]

\* plaintexts: [json, data, key]
\*   json = "req"   the serialized {operate, args} of a request
\*   json = "obj"   a JSON object with the fields data and key (Undef: absent)
\*   json = "null"  the JSON text null
\*   json = "bad"   text that is no JSON
\*   json = "empty" the empty string
Text(j, d, k) == [json |-> j, data |-> d, key |-> k]
ReqText == Text("req", Undef, Undef)
EmptyText == Text("empty", Undef, Undef)

\* encrypted blobs {iv, data, tag}: [kind, k, pt, tamper]
\*   kind = "blob"       produced by AES-GCM under key k from plaintext pt
\*   kind = "empty"      the object {} (no iv, data, tag)
\*   kind = "undefined"  no object at all
\*   tamper: "none", or which field was altered after encryption
Blob(k, p) == [kind |-> "blob", k |-> k, pt |-> p, tamper |-> "none"]
EmptyObj == [kind |-> "empty", k |-> Undef, pt |-> EmptyText, tamper |-> "none"]
NoObj == [kind |-> "undefined", k |-> Undef, pt |-> EmptyText, tamper |-> "none"]
Tampered(b, f) == [b EXCEPT !.tamper = f]

\* Eec.Aes.Gcm.encryptStr: an invalid key length throws inside the try and
\* the catch returns {}
encryptStr(data, key) ==
    IF ~ValidKeyLen(key) THEN EmptyObj ELSE Blob(key, data)

\* decryptStr without the tag check: whatever was encrypted comes back
decryptStr_unauthenticated(blob, key) ==
    IF ~ValidKeyLen(key) THEN EmptyText
    ELSE IF blob.kind # "blob" THEN EmptyText
    ELSE blob.pt

\* Eec.Aes.Gcm.decryptStr: every failure (key length, atob of a missing
\* field, the provider rejecting the tag) is caught and returns ''
decryptStr(blob, key) ==
    IF ~ValidKeyLen(key) THEN EmptyText
    ELSE IF blob.kind # "blob" THEN EmptyText
    ELSE IF blob.tamper # "none" \/ blob.k # key THEN EmptyText
    ELSE blob.pt

(***************************************************************************)
(* Results, responses and the state.                                       *)
(***************************************************************************)
False == [t |-> "bool", id |-> 0, len |-> 5]
\* the Error object a catch block receives
ErrorObj == [t |-> "error", id |-> 1, len |-> 5]
\* the literal string "error"
ErrorStr == Str(4, 5)
\* the payload and the message a well-formed response carries
Data == Str(5, 2)
Msg == Str(6, 2)
\* response codes the /api endpoint issues
Codes == {0, 999}
\* the message the /api endpoint sends along with a code
MessageFor(code) == IF code = 0 THEN Msg ELSE Str(7, 6)

\* what a fetch settles to: [kind, ok, body, code, msg, blob]
\*   kind = "neterr"  the fetch promise rejects (no response arrives)
\*   kind = "http"    a response with res.ok = ok and a body:
\*     "notjson"  res.json() rejects
\*     "env"      JSON {code, message, data: blob} (blob NoObj: no data field)
\*     "none"     no response yet
Http(ok, body, code, blob) ==
    [kind |-> "http", ok |-> ok, body |-> body, code |-> code,
     msg |-> MessageFor(code), blob |-> blob]
NetErr ==
    [kind |-> "neterr", ok |-> FALSE, body |-> "none", code |-> 0, msg |-> Undef,
     blob |-> NoObj]
NoResp ==
    [kind |-> "none", ok |-> FALSE, body |-> "none", code |-> 0, msg |-> Undef,
     blob |-> NoObj]

NoResult == <<Undef, Undef, 0>>

\* new State(): every field null
StateInit == [rsa |-> 0, aes_key |-> Null, pubPem |-> 0, session_user |-> Null]

\* the locals of one Res.api.work call, S and the server's key as the call
\* found them at entry, and the number of POSTs to /api the call has issued
ApiLocals ==
    [alg |-> "", content |-> NoObj, hdr |-> Null, res |-> NoResp,
     dec |-> EmptyText, result |-> NoResult, S0 |-> StateInit, srv0 |-> Null,
     posts |-> 0]

\* the locals of one Res.rs.work call: the RSA instance whose init() it
\* awaits, the exported PEM, the response, the decrypted key, the return
\* value, S as the call found it at entry, and the number of POSTs to /rs
\* the call has issued
HsLocals ==
    [inst |-> 0, pem |-> 0, res |-> [kind |-> "none", ok |-> FALSE, body |-> "none",
                                     ct |-> [kind |-> "undefined", pub |-> 0, pt |-> Undef]],
     dec |-> Undef, ret |-> Undef, S0 |-> StateInit, posts |-> 0]

VARIABLES
    copy,        \* which of the two copies of class Res the page runs: 1 or 2
    S,           \* the Channel State: rsa and pubPem hold an RSA instance / the
                 \* PEM of a keypair by number, 0 for null
    pc,          \* where each Res.api.work call stands
    loc,         \* its locals
    hpc,         \* where each Res.rs.work call stands
    hloc,        \* its locals
    rsaKey,      \* the RSA instances whose key pair has been generated
    srvKey,      \* the key the server expects on the next request
    nApi,        \* Res.api.work calls issued so far
    nHs,         \* Res.rs.work calls issued so far (each creates one RSA
                 \* instance, numbered by it)
    lastInstall, \* the last assignment to S.aes_key: by whom ("hs", "resp"),
                 \* and the key the handshake answer or the response carried
    aes,         \* one use of Eec.Aes.Gcm on its own: the arguments of an
                 \* encrypt call, what it returned, the arguments of the
                 \* decrypt call that follows and what that returned
    pemCall      \* one call of RSA.getPublicKey_pem on its own: the exported
                 \* SubjectPublicKeyInfo bytes and the string it returned

\* the variables of the two protocols
resVars == <<copy, S, pc, loc, hpc, hloc, rsaKey, srvKey, nApi, nHs, lastInstall>>
vars == <<copy, S, pc, loc, hpc, hloc, rsaKey, srvKey, nApi, nHs, lastInstall, aes,
         pemCall>>

\* Eec.Aes.Gcm is not being called; used holds the (key, IV) pairs of the
\* encryptions made so far
AesIdle == [pc |-> "idle", used |-> {}]

\* RSA.getPublicKey_pem is not being called
PemIdle == [pc |-> "idle", spki |-> <<>>, ret |-> <<>>]

Init ==
    /\ copy \in {1, 2}
    /\ S = StateInit
    /\ pc = [c \in Calls |-> "idle"]
    /\ loc = [c \in Calls |-> ApiLocals]
    /\ hpc = [h \in Shakes |-> "idle"]
    /\ hloc = [h \in Shakes |-> HsLocals]
    /\ rsaKey = {}
    /\ srvKey = Null
    /\ nApi = 0
    /\ nHs = 0
    /\ lastInstall = [src |-> "none", key |-> Null]
    /\ aes = AesIdle
    /\ pemCall = PemIdle

\* calls pending (started, result not yet taken)
Pending ==
    Cardinality({c \in Calls : pc[c] # "idle"})
        + Cardinality({h \in Shakes : hpc[h] # "idle"})

(***************************************************************************)
(* Res.api: the Secure Request Protocol.                                   *)
(***************************************************************************)
\* check() testing for null alone
check_nullOnly(v, s) == s.aes_key # Null

\* Res.api.check: TRUE when it does not throw.  Copy 1 of the class also
\* requires S.session_user, copy 2 only S.aes_key.
check(v, s) ==
    IF v = 1 THEN Truthy(s.aes_key) /\ Truthy(s.session_user)
    ELSE Truthy(s.aes_key)

\* the catch block of Res.api.work: copy 1 returns the literal "error",
\* copy 2 the caught value
FailResult(v) ==
    IF v = 1 THEN <<False, ErrorStr, 999>> ELSE <<False, ErrorObj, 999>>

\* the status check left out: every response that arrives is read
ResOk_anyStatus(r) == r.kind = "http"

\* `if (!res.ok) throw`: TRUE when the call goes on to read the body
ResOk(r) == r.kind = "http" /\ r.ok

\* the session identifier computed once and then reused
SessionUser_cached(s) ==
    IF Truthy(s.session_user) THEN s.session_user ELSE Sha256(s.aes_key)

\* Eec.Hash.sha256(S.aes_key), the value assigned to S.session_user
SessionUser(s) == Sha256(s.aes_key)

\* JSON.parse(decryptedJson) followed by parsed.key: TRUE when neither throws
Parses(text) == text.json \in {"obj", "req"}

\* parsed.data read where parsed.key is meant
ParsedKey_data(text) == IF text.json = "obj" THEN text.data ELSE Undef

\* a return statement that takes the key field for the payload
ParsedData_key(text) == IF text.json = "obj" THEN text.key ELSE Undef

\* parsed.key and parsed.data: undefined when the object has no such field
ParsedKey(text) == IF text.json = "obj" THEN text.key ELSE Undef
ParsedData(text) == IF text.json = "obj" THEN text.data ELSE Undef

\* the assignment left out: the key is never rotated
Rotate_skipped(s, text) == s

\* a rotation that takes over only keys of a legal length
Rotate_legalOnly(s, text) ==
    IF ValidKeyLen(ParsedKey(text)) THEN [s EXCEPT !.aes_key = ParsedKey(text)] ELSE s

\* `S.aes_key = parsed.key`
Rotate(s, text) == [s EXCEPT !.aes_key = ParsedKey(text)]

\* a call ends: its result is stored for the caller
ApiEnd(c, result) ==
    /\ pc' = [pc EXCEPT ![c] = "done"]
    /\ loc' = [loc EXCEPT ![c].result = result]

\* entry of Res.api.work up to its first await: check(), JSON.stringify,
\* then encryptStr(jsonString, S.aes_key) or, with an algorithm named, no
\* content at all and straight on to sha256(S.aes_key)
ApiStart(c, alg) ==
    /\ pc[c] = "idle"
    /\ \A d \in Calls : d < c => pc[d] # "idle"
    /\ nApi + nHs < MaxOps
    /\ Pending < MaxPending
    /\ nApi' = nApi + 1
    /\ LET l0 == [ApiLocals EXCEPT !.alg = alg, !.S0 = S, !.srv0 = srvKey] IN
       IF ~check(copy, S)
       THEN /\ pc' = [pc EXCEPT ![c] = "done"]
            /\ loc' = [loc EXCEPT ![c] = [l0 EXCEPT !.result = FailResult(copy)]]
       ELSE IF alg = ""
       THEN /\ pc' = [pc EXCEPT ![c] = "encrypt"]
            /\ loc' = [loc EXCEPT ![c] =
                         [l0 EXCEPT !.content = encryptStr(ReqText, S.aes_key)]]
       ELSE /\ pc' = [pc EXCEPT ![c] = "hash"]
            /\ loc' = [loc EXCEPT ![c] = [l0 EXCEPT !.hdr = SessionUser(S)]]
    /\ UNCHANGED <<aes, pemCall, copy, S, hpc, hloc, rsaKey, srvKey, nHs, lastInstall>>

\* encryptStr has settled: build the envelope, call sha256(S.aes_key)
ApiEncrypted(c) ==
    /\ pc[c] = "encrypt"
    /\ pc' = [pc EXCEPT ![c] = "hash"]
    /\ loc' = [loc EXCEPT ![c].hdr = SessionUser(S)]
    /\ UNCHANGED <<aes, pemCall, copy, S, hpc, hloc, rsaKey, srvKey, nApi, nHs, lastInstall>>

\* sha256 has settled: S.session_user = <the digest>, then the POST to /api
\* with the header session_user: S.session_user and the envelope as body
ApiHashed(c) ==
    /\ pc[c] = "hash"
    /\ S' = [S EXCEPT !.session_user = loc[c].hdr]
    /\ pc' = [pc EXCEPT ![c] = "fetch"]
    /\ loc' = [loc EXCEPT ![c].posts = @ + 1]
    /\ UNCHANGED <<aes, pemCall, copy, hpc, hloc, rsaKey, srvKey, nApi, nHs, lastInstall>>

\* `const result = await res.json()` and the destructuring of result.data:
\* TRUE when neither throws
HasData(r) == r.body = "env" /\ r.blob.kind # "undefined"

\* a response handler that sends the request once more after a rejected
\* fetch or a non-2xx status
ApiOnResponse_retrying(c) ==
    /\ pc[c] = "answered"
    /\ IF ~ResOk(loc[c].res) /\ loc[c].posts < 2
       THEN /\ pc' = [pc EXCEPT ![c] = "fetch"]
            /\ loc' = [loc EXCEPT ![c].posts = @ + 1]
       ELSE IF ~ResOk(loc[c].res) \/ ~HasData(loc[c].res)
       THEN ApiEnd(c, FailResult(copy))
       ELSE /\ pc' = [pc EXCEPT ![c] = "decrypt"]
            /\ loc' = [loc EXCEPT ![c].dec = decryptStr(loc[c].res.blob, S.aes_key)]
    /\ UNCHANGED <<aes, pemCall, copy, S, hpc, hloc, rsaKey, srvKey, nApi, nHs, lastInstall>>

\* a response handler that goes back to waiting for a response after a
\* rejected fetch or a non-2xx status
ApiOnResponse_waiting(c) ==
    /\ pc[c] = "answered"
    /\ IF ~ResOk(loc[c].res)
       THEN /\ pc' = [pc EXCEPT ![c] = "fetch"]
            /\ UNCHANGED loc
       ELSE IF ~HasData(loc[c].res)
       THEN ApiEnd(c, FailResult(copy))
       ELSE /\ pc' = [pc EXCEPT ![c] = "decrypt"]
            /\ loc' = [loc EXCEPT ![c].dec = decryptStr(loc[c].res.blob, S.aes_key)]
    /\ UNCHANGED <<aes, pemCall, copy, S, hpc, hloc, rsaKey, srvKey, nApi, nHs, lastInstall>>

\* the fetch has settled and, on a 2xx status, res.json() after it (no
\* shared state is read or written between the two): a rejected fetch, a
\* non-2xx status, a body that is no JSON and a missing data field end the
\* call in the catch block; otherwise decryptStr(data, iv, tag, S.aes_key)
\* is called
ApiOnResponse(c) ==
    /\ pc[c] = "answered"
    /\ IF ~ResOk(loc[c].res) \/ ~HasData(loc[c].res)
       THEN ApiEnd(c, FailResult(copy))
       ELSE /\ pc' = [pc EXCEPT ![c] = "decrypt"]
            /\ loc' = [loc EXCEPT ![c].dec = decryptStr(loc[c].res.blob, S.aes_key)]
    /\ UNCHANGED <<aes, pemCall, copy, S, hpc, hloc, rsaKey, srvKey, nApi, nHs, lastInstall>>

\* decryptStr has settled: JSON.parse, S.aes_key = parsed.key, return
ApiOnDecrypted(c) ==
    /\ pc[c] = "decrypt"
    /\ IF Parses(loc[c].dec)
       THEN /\ S' = Rotate(S, loc[c].dec)
            /\ lastInstall' = [src |-> "resp", key |-> ParsedKey(loc[c].dec)]
            /\ ApiEnd(c, <<ParsedData(loc[c].dec), loc[c].res.msg, loc[c].res.code>>)
       ELSE /\ ApiEnd(c, FailResult(copy))
            /\ UNCHANGED <<S, lastInstall>>
    /\ UNCHANGED <<aes, pemCall, copy, hpc, hloc, rsaKey, srvKey, nApi, nHs>>

\* the caller takes the result
ApiReturn(c) ==
    /\ pc[c] = "done"
    /\ pc' = [pc EXCEPT ![c] = "idle"]
    /\ loc' = [loc EXCEPT ![c] = ApiLocals]
    /\ UNCHANGED <<aes, pemCall, copy, S, hpc, hloc, rsaKey, srvKey, nApi, nHs, lastInstall>>

(***************************************************************************)
(* The /api endpoint and the transport (the environment of Res.api.work).  *)
(* The server answers a request that proves possession of its key with a   *)
(* response under that key carrying the next key, and expects the next key *)
(* from then on; it may also reject, or answer out of shape.               *)
(***************************************************************************)
\* the request proves possession of the server's key
Authentic(hdr, content, sk) ==
    /\ ValidKeyLen(sk)
    /\ hdr = Sha256(sk)
    /\ content.kind = "blob" /\ content.k = sk /\ content.tamper = "none"

\* what the server may answer, each with the key it expects afterwards
ApiAnswers(hdr, content, sk) ==
    \* accepted: {data, key} under the current key; the server switches
    (IF Authentic(hdr, content, sk)
     THEN {[resp |-> Http(TRUE, "env", code, Blob(sk, Text("obj", Data, nk))),
            key |-> nk] : nk \in LegalKeys, code \in Codes}
          \cup
          \* accepted, but the key issued is no AES key
          {[resp |-> Http(TRUE, "env", 0, Blob(sk, Text("obj", Data, ShortKey))),
            key |-> ShortKey]}
     ELSE {})
    \cup
    \* rejected with a non-2xx status; the server keeps its key
    {[resp |-> Http(FALSE, "env", 0, Blob(sk, Text("obj", Data, Str(1, 32)))),
      key |-> sk]}
    \cup
    \* 2xx but out of shape; the server keeps its key
    {[resp |-> r, key |-> sk] : r \in
        {Http(TRUE, "notjson", 0, NoObj),
         Http(TRUE, "env", 0, NoObj),
         Http(TRUE, "env", 0, EmptyObj),
         Http(TRUE, "env", 0, Blob(sk, Text("bad", Undef, Undef))),
         Http(TRUE, "env", 0, Blob(sk, Text("null", Undef, Undef))),
         Http(TRUE, "env", 0, Blob(sk, Text("obj", Data, Undef))),
         Http(TRUE, "env", 0, Blob(Str(9, 32), Text("obj", Data, Str(1, 32))))}}

\* what the transport does to a response: deliver it, lose it, or alter
\* the tag or the data of its blob (altering a response that fails anyway
\* changes nothing, so only 2xx responses that would decrypt are altered)
Transports == {"deliver", "lose", "tag", "data"}
Carry(tr, r, sk) ==
    CASE tr = "lose" -> NetErr
      [] tr \in {"tag", "data"} /\ r.ok /\ r.blob.kind = "blob" /\ r.blob.k = sk ->
            [r EXCEPT !.blob = Tampered(r.blob, tr)]
      [] OTHER -> r

\* the POST to /api is answered (or lost) and the fetch settles
ApiServe(c) ==
    /\ pc[c] = "fetch"
    /\ \E a \in ApiAnswers(loc[c].hdr, loc[c].content, srvKey), tr \in Transports :
          /\ loc' = [loc EXCEPT ![c].res = Carry(tr, a.resp, srvKey)]
          /\ srvKey' = a.key
    /\ pc' = [pc EXCEPT ![c] = "answered"]
    /\ UNCHANGED <<aes, pemCall, copy, S, hpc, hloc, rsaKey, nApi, nHs, lastInstall>>

(***************************************************************************)
(* RSA and Res.rs: the Handshake Protocol.                                 *)
(***************************************************************************)
True == [t |-> "bool", id |-> 1, len |-> 4]
\* what a failed RSA.decrypt leaves behind: it throws, no value is returned
Thrown == [t |-> "thrown", id |-> 0, len |-> 0]

\* the data field of the /rs answer: [kind, pub, pt]
\*   kind = "rsa"        hex RSA-OAEP ciphertext of pt under the public key pub
\*   kind = "garbage"    hex text that is no ciphertext of any key
\*   kind = "undefined"  no data field
RsaCt(p, k) == [kind |-> "rsa", pub |-> p, pt |-> k]
GarbageCt == [kind |-> "garbage", pub |-> 0, pt |-> Undef]
NoCt == [kind |-> "undefined", pub |-> 0, pt |-> Undef]
HsHttp(ok, body, ct) == [kind |-> "http", ok |-> ok, body |-> body, ct |-> ct]
HsNetErr == [kind |-> "neterr", ok |-> FALSE, body |-> "none", ct |-> NoCt]

\* RSA.getPublicKey_pem on instance i: TRUE when it does not throw
\* (this.key is null until init() has generated the pair)
CanExport(i, generated) == i \in generated

\* an RSA.decrypt that swallows its errors as the AES helpers do
RsaDecrypt_swallowing(i, generated, ct) ==
    IF i \notin generated \/ ct.kind # "rsa" \/ ct.pub # i THEN EmptyStr ELSE ct.pt

\* RSA.decrypt(cipherText, {input: "hex"}) on instance i: the plaintext, or
\* Thrown (no private key, cipherText.match on undefined, provider rejects)
RsaDecrypt(i, generated, ct) ==
    IF i \notin generated THEN Thrown
    ELSE IF ct.kind # "rsa" THEN Thrown
    ELSE IF ct.pub # i THEN Thrown
    ELSE ct.pt

\* a handshake that drops the decrypted key
Install_skipped(s, k) == s

\* a handshake that also stores the session identifier of its key
Install_withSessionUser(s, k) == [s EXCEPT !.aes_key = k, !.session_user = Sha256(k)]

\* `S.aes_key = await S.rsa.decrypt(...)`
Install(s, k) == [s EXCEPT !.aes_key = k]

\* a handshake ends with true or false
HsEnd(h, ret) ==
    /\ hpc' = [hpc EXCEPT ![h] = "done"]
    /\ hloc' = [hloc EXCEPT ![h].ret = ret]

\* S.rsa = new RSA(); S.rsa.init() is called and awaited
HsStart(h) ==
    /\ hpc[h] = "idle"
    /\ \A g \in Shakes : g < h => hpc[g] # "idle"
    /\ nApi + nHs < MaxOps
    /\ Pending < MaxPending
    /\ nHs' = nHs + 1
    /\ S' = [S EXCEPT !.rsa = nHs + 1]
    /\ hpc' = [hpc EXCEPT ![h] = "init"]
    /\ hloc' = [hloc EXCEPT ![h] = [HsLocals EXCEPT !.inst = nHs + 1, !.S0 = S]]
    /\ UNCHANGED <<aes, pemCall, copy, pc, loc, rsaKey, srvKey, nApi, lastInstall>>

\* init() has generated the pair of its instance; S.rsa.getPublicKey_pem()
\* is called on whatever instance S.rsa holds now
HsInitDone(h) ==
    /\ hpc[h] = "init"
    /\ rsaKey' = rsaKey \cup {hloc[h].inst}
    /\ IF CanExport(S.rsa, rsaKey')
       THEN /\ hpc' = [hpc EXCEPT ![h] = "export"]
            /\ hloc' = [hloc EXCEPT ![h].pem = S.rsa]
       ELSE HsEnd(h, False)
    /\ UNCHANGED <<aes, pemCall, copy, S, pc, loc, srvKey, nApi, nHs, lastInstall>>

\* the export has settled: S.pubPem = <the PEM>, then the POST to /rs with
\* the form field user_key_pub_pem = S.pubPem
HsExported(h) ==
    /\ hpc[h] = "export"
    /\ S' = [S EXCEPT !.pubPem = hloc[h].pem]
    /\ hpc' = [hpc EXCEPT ![h] = "fetch"]
    /\ hloc' = [hloc EXCEPT ![h].posts = @ + 1]
    /\ UNCHANGED <<aes, pemCall, copy, pc, loc, rsaKey, srvKey, nApi, nHs, lastInstall>>

\* what /rs may answer to the public key p, each with the key the server
\* expects afterwards
HsAnswers(p, sk) ==
    {[resp |-> HsHttp(TRUE, "json", RsaCt(p, k)), key |-> k] : k \in HsKeys}
    \cup
    {[resp |-> r, key |-> sk] : r \in
        {HsHttp(FALSE, "json", RsaCt(p, Str(1, 32))),
         HsHttp(TRUE, "notjson", NoCt),
         HsHttp(TRUE, "json", NoCt),
         HsHttp(TRUE, "json", GarbageCt)}}

\* the POST to /rs is answered (or lost) and the fetch settles
HsServe(h) ==
    /\ hpc[h] = "fetch"
    /\ \E a \in HsAnswers(hloc[h].pem, srvKey), lost \in BOOLEAN :
          /\ hloc' = [hloc EXCEPT ![h].res = IF lost THEN HsNetErr ELSE a.resp]
          /\ srvKey' = a.key
    /\ hpc' = [hpc EXCEPT ![h] = "answered"]
    /\ UNCHANGED <<aes, pemCall, copy, S, pc, loc, rsaKey, nApi, nHs, lastInstall>>

\* `if (!res.ok) throw` and `await res.json()`: TRUE when neither throws
HsResOk(r) == r.kind = "http" /\ r.ok /\ r.body = "json"

\* the fetch has settled and, on a 2xx status, res.json() after it (no
\* shared state is read or written between the two): a rejected fetch, a
\* non-2xx status and a body that is no JSON end the handshake in the catch
\* block; otherwise S.rsa.decrypt(result.data, {input: "hex"}) is called on
\* whatever instance S.rsa holds now
HsOnResponse(h) ==
    /\ hpc[h] = "answered"
    /\ IF ~HsResOk(hloc[h].res)
       THEN HsEnd(h, False)
       ELSE /\ hpc' = [hpc EXCEPT ![h] = "decrypt"]
            /\ hloc' = [hloc EXCEPT ![h].dec = RsaDecrypt(S.rsa, rsaKey, hloc[h].res.ct)]
    /\ UNCHANGED <<aes, pemCall, copy, S, pc, loc, rsaKey, srvKey, nApi, nHs, lastInstall>>

\* decrypt has settled: S.aes_key = <the plaintext>; return true
HsOnDecrypted(h) ==
    /\ hpc[h] = "decrypt"
    /\ IF hloc[h].dec = Thrown
       THEN /\ HsEnd(h, False)
            /\ UNCHANGED <<S, lastInstall>>
       ELSE /\ S' = Install(S, hloc[h].dec)
            /\ lastInstall' = [src |-> "hs", key |-> hloc[h].dec]
            /\ HsEnd(h, True)
    /\ UNCHANGED <<aes, pemCall, copy, pc, loc, rsaKey, srvKey, nApi, nHs>>

\* the caller takes the return value
HsReturn(h) ==
    /\ hpc[h] = "done"
    /\ hpc' = [hpc EXCEPT ![h] = "idle"]
    /\ hloc' = [hloc EXCEPT ![h] = HsLocals]
    /\ UNCHANGED <<aes, pemCall, copy, S, pc, loc, rsaKey, srvKey, nApi, nHs, lastInstall>>

(***************************************************************************)
(* Specifications.                                                         *)
(***************************************************************************)
\* the compression algorithms a caller may name ("" is none)
Algorithms == {"", "gzip"}

\* no call of either kind is pending and every result has been taken
Quiet ==
    /\ \A c \in Calls : pc[c] = "idle"
    /\ \A h \in Shakes : hpc[h] = "idle"

Next ==
    \/ \E c \in Calls, alg \in Algorithms : ApiStart(c, alg)
    \/ \E c \in Calls : ApiEncrypted(c)
    \/ \E c \in Calls : ApiHashed(c)
    \/ \E c \in Calls : ApiServe(c)
    \/ \E c \in Calls : ApiOnResponse(c)
    \/ \E c \in Calls : ApiOnDecrypted(c)
    \/ \E c \in Calls : ApiReturn(c)
    \/ \E h \in Shakes : HsStart(h)
    \/ \E h \in Shakes : HsInitDone(h)
    \/ \E h \in Shakes : HsExported(h)
    \/ \E h \in Shakes : HsServe(h)
    \/ \E h \in Shakes : HsOnResponse(h)
    \/ \E h \in Shakes : HsOnDecrypted(h)
    \/ \E h \in Shakes : HsReturn(h)

\* callers issue calls whenever they like
Spec == Init /\ [][Next]_vars

\* callers issue one call at a time: a call starts only when none is pending
NextSeq ==
    \/ Quiet /\ \E c \in Calls, alg \in Algorithms : ApiStart(c, alg)
    \/ \E c \in Calls : ApiEncrypted(c)
    \/ \E c \in Calls : ApiHashed(c)
    \/ \E c \in Calls : ApiServe(c)
    \/ \E c \in Calls : ApiOnResponse(c)
    \/ \E c \in Calls : ApiOnDecrypted(c)
    \/ \E c \in Calls : ApiReturn(c)
    \/ Quiet /\ \E h \in Shakes : HsStart(h)
    \/ \E h \in Shakes : HsInitDone(h)
    \/ \E h \in Shakes : HsExported(h)
    \/ \E h \in Shakes : HsServe(h)
    \/ \E h \in Shakes : HsOnResponse(h)
    \/ \E h \in Shakes : HsOnDecrypted(h)
    \/ \E h \in Shakes : HsReturn(h)

SpecSeq == Init /\ [][NextSeq]_vars

(***************************************************************************)
(* Properties.                                                             *)
(***************************************************************************)
\* call c has passed the entry check and has not yet ended
Active(c) == pc[c] \notin {"idle", "done"}

\* call c has issued its POST to /api
Posted(c) ==
    \/ pc[c] \in {"fetch", "answered", "decrypt"}
    \/ pc[c] = "done" /\ loc[c].res.kind # "none"

\* call c has ended and /api had answered it with a non-2xx status
Non2xx(c) ==
    pc[c] = "done" /\ loc[c].res.kind = "http" /\ ~loc[c].res.ok

\* C1: with requests issued one at a time, once a response has rotated the
\* key, the session_user header of the following request is the SHA-256 of
\* the key that response carried (Sha256 is injective, so it is the hash of
\* no other key: not of the handshake key, not of an earlier response's key).
C1_HeaderIsHashOfLastResponseKey ==
    \A c \in Calls :
        (pc[c] \in {"fetch", "answered", "decrypt"} /\ lastInstall.src = "resp")
            => loc[c].hdr = Sha256(lastInstall.key)

\* a request is on the wire after a response installed a legal key other
\* than the one the previous session identifier was computed from
C1_Witness ==
    \E c \in Calls :
        /\ pc[c] = "fetch"
        /\ lastInstall.src = "resp"
        /\ lastInstall.key \in LegalKeys
        /\ Truthy(loc[c].S0.session_user)
        /\ loc[c].S0.session_user # loc[c].hdr

\* C2: with requests issued one at a time and client and server agreeing on
\* the key when a call starts, they agree again when the call has ended,
\* however it ended.
C2_KeysNeverDiverge ==
    \A c \in Calls :
        (pc[c] = "done" /\ loc[c].S0.aes_key = loc[c].srv0)
            => S.aes_key = srvKey

\* the response of call c arrived unaltered and decrypts under the key the
\* call started with to an object whose key field is a string
WellFormed(c) ==
    /\ ResOk(loc[c].res) /\ HasData(loc[c].res)
    /\ loc[c].res.blob.kind = "blob"
    /\ loc[c].res.blob.tamper = "none"
    /\ loc[c].res.blob.k = loc[c].S0.aes_key
    /\ loc[c].res.blob.pt.json = "obj"
    /\ loc[c].res.blob.pt.key.t = "str"

\* C2 (amended): with requests issued one at a time and client and server
\* agreeing on the key when a call starts, they agree again after a call
\* whose response arrived unaltered and well formed, and after a call the
\* server rejected with a non-2xx status.
C2_KeysAgreeAfterAnsweredCall ==
    \A c \in Calls :
        (/\ pc[c] = "done"
         /\ loc[c].S0.aes_key = loc[c].srv0
         /\ (WellFormed(c) \/ Non2xx(c)))
            => S.aes_key = srvKey

\* a call has ended after a well-formed response moved both sides to a new key
C2_Witness ==
    \E c \in Calls :
        /\ pc[c] = "done"
        /\ loc[c].S0.aes_key = loc[c].srv0
        /\ WellFormed(c)
        /\ S.aes_key = srvKey
        /\ S.aes_key # loc[c].S0.aes_key

\* C3: two Res.api.work calls are never both under way having read the same
\* key at entry.
C3_CallsSerialized ==
    \A c, d \in Calls :
        (c # d /\ Active(c) /\ Active(d))
            => loc[c].S0.aes_key # loc[d].S0.aes_key

\* C4: no handshake assigns S.aes_key while a request is under way.
C4_NoHandshakeInstallDuringRequest ==
    [][\A c \in Calls, h \in Shakes :
          (Active(c) /\ hpc[h] = "decrypt" /\ hpc'[h] = "done")
              => S'.aes_key = S.aes_key]_vars

\* C5: after a call that /api answered with a non-2xx status the result
\* carries code 999 and S.aes_key is what it was when the call started.
C5_Non2xxFailsAndKeepsKey ==
    \A c \in Calls :
        Non2xx(c) =>
            /\ loc[c].result[3] = 999
            /\ S.aes_key = loc[c].S0.aes_key

\* a call on an established channel has ended on a non-2xx status
C5_Witness ==
    \E c \in Calls : Non2xx(c) /\ loc[c].S0.aes_key \in LegalKeys

\* C6: after a call that /api answered with a non-2xx status every field of
\* S is what it was when the call started.
C6_Non2xxLeavesStateUntouched ==
    \A c \in Calls : Non2xx(c) => S = loc[c].S0

\* C6 (amended): after a call that /api answered with a non-2xx status,
\* aes_key, rsa and pubPem are what they were when the call started, and
\* session_user is the SHA-256 of that key.
C6_Non2xxKeepsAllButSessionUser ==
    \A c \in Calls :
        Non2xx(c) =>
            /\ S.aes_key = loc[c].S0.aes_key
            /\ S.rsa = loc[c].S0.rsa
            /\ S.pubPem = loc[c].S0.pubPem
            /\ S.session_user = Sha256(loc[c].S0.aes_key)

\* a call has ended on a non-2xx status and left a session identifier that
\* was not there when it started
C6_Witness ==
    \E c \in Calls :
        /\ Non2xx(c)
        /\ S.session_user # loc[c].S0.session_user
        /\ S.session_user = Sha256(S.aes_key)

\* the blob of the response of call c had its tag or data altered, or was
\* produced under another key than the one the call holds
Unauthentic(c) ==
    /\ ResOk(loc[c].res) /\ HasData(loc[c].res)
    /\ loc[c].res.blob.kind = "blob"
    /\ (loc[c].res.blob.tamper # "none" \/ loc[c].res.blob.k # loc[c].S0.aes_key)

\* C7: a response whose blob was altered, or produced under another key,
\* does not decrypt; the call returns the failure result and S.aes_key is
\* not rotated.
C7_TamperedResponseFailsAndKeepsKey ==
    \A c \in Calls :
        (pc[c] = "done" /\ Unauthentic(c)) =>
            /\ loc[c].dec = EmptyText
            /\ loc[c].result = FailResult(copy)
            /\ S.aes_key = loc[c].S0.aes_key

\* a call has ended on a response that carried a new key under the right
\* key but with its tag altered
C7_Witness ==
    \E c \in Calls :
        /\ pc[c] = "done"
        /\ Unauthentic(c)
        /\ loc[c].res.blob.tamper = "tag"
        /\ loc[c].res.blob.k = loc[c].S0.aes_key
        /\ loc[c].res.blob.pt.key \in LegalKeys
        /\ loc[c].res.blob.pt.key # loc[c].S0.aes_key

\* C8: a call that started with a non-empty S.aes_key leaves S.aes_key
\* non-empty, whatever the shape of the decrypted response.
C8_KeyStaysSet ==
    \A c \in Calls :
        (pc[c] = "done" /\ Truthy(loc[c].S0.aes_key)) => Truthy(S.aes_key)

\* C9: a call that finds no symmetric key at entry (null, undefined or the
\* empty string) has ended at once with the failure result, without content,
\* session identifier or POST.
C9_NoKeyFailsWithoutPost ==
    \A c \in Calls :
        (pc[c] # "idle" /\ ~Truthy(loc[c].S0.aes_key)) =>
            /\ pc[c] = "done"
            /\ loc[c].result = FailResult(copy)
            /\ ~Posted(c)
            /\ loc[c].hdr = Null

\* a call has ended that found an undefined or empty key at entry
C9_Witness ==
    \E c \in Calls :
        /\ pc[c] = "done"
        /\ loc[c].S0.aes_key \in {Undef, EmptyStr}
        /\ loc[c].result = FailResult(copy)

\* C10: a call that finds a non-empty S.aes_key at entry passes the entry
\* check and reaches its POST to /api.
C10_CheckDependsOnKeyOnly ==
    \A c \in Calls :
        (pc[c] = "done" /\ Truthy(loc[c].S0.aes_key)) => Posted(c)

\* C11: a call given a non-empty algorithm name (no codec is registered for
\* any) never issues its POST to /api: it ends with the failure result and
\* leaves S.aes_key as it found it.
C11_UnknownAlgorithmNeverPosts ==
    \A c \in Calls :
        (pc[c] # "idle" /\ loc[c].alg # "") =>
            /\ ~Posted(c)
            /\ pc[c] = "done" => /\ loc[c].result = FailResult(copy)
                                 /\ S.aes_key = loc[c].S0.aes_key

\* handshake h has ended and one of its steps had failed: the fetch was
\* rejected, /rs answered with a non-2xx status or a body that is no JSON,
\* or the data field is no RSA ciphertext under the submitted public key
HsFailed(h) ==
    /\ hpc[h] = "done"
    /\ \/ ~HsResOk(hloc[h].res)
       \/ hloc[h].res.ct.kind # "rsa"
       \/ hloc[h].res.ct.pub # hloc[h].pem

\* C12: with operations issued one at a time, a handshake one of whose steps
\* failed has returned false and S.aes_key is what it was when the handshake
\* was entered.
C12_FailedHandshakeKeepsKey ==
    \A h \in Shakes :
        HsFailed(h) => /\ hloc[h].ret = False
                       /\ S.aes_key = hloc[h].S0.aes_key

\* a handshake entered with a legal key installed has ended on a data field
\* that RSA.decrypt rejects
C12_Witness ==
    \E h \in Shakes :
        /\ HsFailed(h)
        /\ HsResOk(hloc[h].res)
        /\ hloc[h].S0.aes_key \in LegalKeys
        /\ hloc[h].ret = False

\* handshake h has ended and /rs had answered 2xx with the hex RSA
\* ciphertext, under the public key this handshake submitted, of some text
HsDecryptable(h) ==
    /\ hpc[h] = "done"
    /\ HsResOk(hloc[h].res)
    /\ hloc[h].res.ct.kind = "rsa"
    /\ hloc[h].res.ct.pub = hloc[h].pem

\* C13: a handshake whose decrypted key has a byte length other than 16, 24
\* or 32 (the empty string included) has returned false and has not
\* installed it.
C13_IllegalKeyLengthRejected ==
    \A h \in Shakes :
        (HsDecryptable(h) /\ ~ValidKeyLen(hloc[h].res.ct.pt)) =>
            /\ hloc[h].ret = False
            /\ S.aes_key = hloc[h].S0.aes_key

\* C14: whenever S.aes_key holds a key, its byte length is 16, 24 or 32.
C14_KeyLengthLegal ==
    S.aes_key \notin {Null, Undef} => ValidKeyLen(S.aes_key)

\* C15: with operations issued one at a time, a handshake that /rs answered
\* 2xx with the RSA ciphertext, under the submitted public key, of a key K of
\* legal length has returned true and S.aes_key is K.
C15_HandshakeInstallsKey ==
    \A h \in Shakes :
        (HsDecryptable(h) /\ hloc[h].res.ct.pt \in LegalKeys) =>
            /\ hloc[h].ret = True
            /\ S.aes_key = hloc[h].res.ct.pt

\* a handshake has ended true with the key /rs sent installed over another
C15_Witness ==
    \E h \in Shakes :
        /\ HsDecryptable(h)
        /\ hloc[h].res.ct.pt \in LegalKeys
        /\ hloc[h].ret = True
        /\ S.aes_key = hloc[h].res.ct.pt
        /\ hloc[h].S0.aes_key # S.aes_key

\* call c has ended and /api had answered 2xx with a blob that decrypts,
\* under the key the call worked with, to a JSON object (AES-GCM has no
\* blob under a key of another length than 16, 24 or 32 bytes)
Decryptable(c) ==
    /\ pc[c] = "done"
    /\ ValidKeyLen(loc[c].S0.aes_key)
    /\ ResOk(loc[c].res) /\ HasData(loc[c].res)
    /\ loc[c].res.blob.kind = "blob"
    /\ loc[c].res.blob.tamper = "none"
    /\ loc[c].res.blob.k = loc[c].S0.aes_key
    /\ loc[c].res.blob.pt.json = "obj"

\* C16: with requests issued one at a time, a call whose 2xx response
\* decrypts under the current key to a JSON object {data, key} returns
\* exactly the decrypted data, the message of the response envelope and the
\* code of the response envelope.
C16_SuccessReturnsDataMessageCode ==
    \A c \in Calls :
        Decryptable(c) =>
            loc[c].result = <<loc[c].res.blob.pt.data, loc[c].res.msg, loc[c].res.code>>

\* a call has returned the payload of a response carrying a non-zero code
C16_Witness ==
    \E c \in Calls :
        /\ Decryptable(c)
        /\ loc[c].res.blob.pt.key \in LegalKeys
        /\ loc[c].res.code # 0
        /\ loc[c].result = <<Data, MessageFor(loc[c].res.code), loc[c].res.code>>

\* call c has ended without a decrypted and parsed response: its entry
\* check, its encryption, the transport, res.json(), the decryption or
\* JSON.parse had failed
Failed(c) == pc[c] = "done" /\ ~Parses(loc[c].dec)

\* C17: every call that failed has returned the one failure shape: false, a
\* string description, 999.
C17_FailureShapeUniform ==
    \A c \in Calls :
        Failed(c) => /\ loc[c].result[1] = False
                     /\ loc[c].result[2].t = "str"
                     /\ loc[c].result[3] = 999

\* C18: with requests issued one at a time, a call that returned code 999
\* has not rotated S.aes_key and returned false as its first element, and a
\* call whose response decrypted and parsed did not return code 999.
C18_Code999OnlyClientFailure ==
    \A c \in Calls :
        /\ (pc[c] = "done" /\ loc[c].result[3] = 999) =>
               /\ S.aes_key = loc[c].S0.aes_key
               /\ loc[c].result[1] = False
        /\ (pc[c] = "done" /\ Parses(loc[c].dec)) => loc[c].result[3] # 999

\* C19: a call that finds a non-empty S.aes_key of a byte length other than
\* 16, 24 or 32 at entry never issues its POST to /api.
C19_IllegalKeyLengthNeverPosts ==
    \A c \in Calls :
        (pc[c] # "idle" /\ Truthy(loc[c].S0.aes_key) /\ ~ValidKeyLen(loc[c].S0.aes_key))
            => ~Posted(c)

\* C20: with operations issued one at a time, a call with no algorithm that
\* is made while the last key installed is the legal key K of a successful
\* handshake passes the entry check and is sent with session_user =
\* SHA-256(K) and content encrypted under K.
C20_HandshakeRecoversChannel ==
    \A c \in Calls :
        (/\ pc[c] # "idle" /\ loc[c].alg = ""
         /\ lastInstall.src = "hs" /\ lastInstall.key \in LegalKeys) =>
            /\ pc[c] = "done" => Posted(c)
            /\ Posted(c) => /\ loc[c].hdr = Sha256(lastInstall.key)
                            /\ loc[c].content = Blob(lastInstall.key, ReqText)

\* C21: with requests issued one at a time, a call whose 2xx response
\* decrypts under the current key to an object carrying a key has, when it
\* returns, replaced S.aes_key by that key, whatever code and message the
\* response has.
C21_DecryptedResponseRotatesKey ==
    \A c \in Calls :
        (Decryptable(c) /\ loc[c].res.blob.pt.key.t = "str") =>
            S.aes_key = loc[c].res.blob.pt.key

\* a call has ended on a response with a non-zero code that carried a key
\* other than the one in use, and that key is installed
C21_Witness ==
    \E c \in Calls :
        /\ Decryptable(c)
        /\ loc[c].res.blob.pt.key.t = "str"
        /\ loc[c].res.code # 0
        /\ loc[c].res.blob.pt.key # loc[c].S0.aes_key
        /\ S.aes_key = loc[c].res.blob.pt.key

\* C22: in every state with no operation in flight in which S.session_user
\* and S.aes_key are both set, S.session_user is the SHA-256 of S.aes_key.
C22_SessionUserInStepWithKey ==
    (Quiet /\ Truthy(S.session_user) /\ Truthy(S.aes_key)) =>
        S.session_user = Sha256(S.aes_key)

\* C23: no call sends its request twice: one Res.api.work call has issued at
\* most one POST to /api and one Res.rs.work call at most one POST to /rs,
\* at every point and whatever the outcome.
C23_AtMostOnePost ==
    /\ \A c \in Calls : loc[c].posts <= 1
    /\ \A h \in Shakes : hloc[h].posts <= 1

\* a request has failed on a non-2xx answer after its one POST
C23_Witness ==
    \E c \in Calls : Non2xx(c) /\ loc[c].posts = 1 /\ loc[c].result[3] = 999

\* C24: S.aes_key leaves null only in the step in which a handshake that /rs
\* answered 2xx with an RSA ciphertext returns true: no request and no
\* failed handshake installs a key into a channel that never completed a
\* handshake.
C24_KeyNullUntilHandshake ==
    [][(S.aes_key = Null /\ S'.aes_key # Null) =>
          \E h \in Shakes :
              /\ hpc[h] = "decrypt" /\ hpc'[h] = "done"
              /\ hloc'[h].ret = True
              /\ HsResOk(hloc[h].res)
              /\ hloc[h].res.ct.kind = "rsa"]_vars

\* a request and a failed handshake have been made and S.aes_key is still
\* null
C24_Witness ==
    /\ S.aes_key = Null
    /\ nApi >= 1
    /\ \E h \in Shakes : HsFailed(h) /\ hloc[h].res.ct.kind = "garbage"

\* C25: every read of S.aes_key that a call makes after its entry check (for
\* hashing the session identifier once the content is encrypted, and for
\* decrypting the response) finds the key that the entry check of that call
\* validated.
C25_ReadsSeeCheckedKey ==
    [][\A c \in Calls :
          (\/ pc[c] = "encrypt" /\ pc'[c] = "hash"
           \/ pc[c] = "answered" /\ pc'[c] = "decrypt")
              => S.aes_key = loc[c].S0.aes_key]_vars

\* C25, the weaker reading: every such read finds a non-empty key.
C25_ReadsSeeNonEmptyKey ==
    [][\A c \in Calls :
          (\/ pc[c] = "encrypt" /\ pc'[c] = "hash"
           \/ pc[c] = "answered" /\ pc'[c] = "decrypt")
              => Truthy(S.aes_key)]_vars

\* C26: once Res.rs.work has returned, Channel State holds no keypair: with
\* no handshake in progress or waiting to hand over its return value, S.rsa
\* is null.
C26_NoKeypairOutsideHandshake ==
    (\A h \in Shakes : hpc[h] = "idle") => S.rsa = 0

\* C30: in every interleaving, the key a call hashes into session_user (read
\* when its content has been encrypted) and the key it decrypts the response
\* with (read when the response has arrived) are the key its request content
\* was encrypted under.
C30_OneKeyPerCall ==
    [][\A c \in Calls :
          (/\ loc[c].content.kind = "blob"
           /\ \/ pc[c] = "encrypt" /\ pc'[c] = "hash"
              \/ pc[c] = "answered" /\ pc'[c] = "decrypt")
              => S.aes_key = loc[c].content.k]_vars

(***************************************************************************)
(* Progress: every settled promise has its continuation run, and the       *)
(* transport settles every fetch.                                          *)
(***************************************************************************)
\* the event loop runs the continuation of every await that has settled
ClientFairness ==
    /\ \A c \in Calls :
          /\ WF_vars(ApiEncrypted(c))
          /\ WF_vars(ApiHashed(c))
          /\ WF_vars(ApiOnResponse(c))
          /\ WF_vars(ApiOnDecrypted(c))
    /\ \A h \in Shakes :
          /\ WF_vars(HsInitDone(h))
          /\ WF_vars(HsExported(h))
          /\ WF_vars(HsOnResponse(h))
          /\ WF_vars(HsOnDecrypted(h))

\* the transport answers, or errors, for every POST
TransportFairness ==
    /\ \A c \in Calls : WF_vars(ApiServe(c))
    /\ \A h \in Shakes : WF_vars(HsServe(h))

\* operations issued one at a time, with progress
SpecLive == SpecSeq /\ ClientFairness /\ TransportFairness

(***************************************************************************)
(* Eec.Aes.Gcm on its own: encryptStr / decryptStr and encryptBytes /      *)
(* decryptBytes as functions of their arguments.  A string is a sequence   *)
(* of UTF-16 code units, a byte array a sequence of bytes.                 *)
(***************************************************************************)
\* the longest plaintext a caller passes, in code units (strings) or bytes
MaxPlain == 2

\* all sequences over A of length at most n
RECURSIVE SeqsUpTo(_, _)
SeqsUpTo(A, n) ==
    IF n = 0 THEN {<<>>}
    ELSE LET r == SeqsUpTo(A, n - 1)
         IN  r \cup {Append(s, x) : s \in {t \in r : Len(t) = n - 1}, x \in A}

\* the strings passed to encryptStr: code units are a letter ("a") or an
\* unpaired surrogate ("sur"); decoding can also yield U+FFFD ("fffd")
Plaintexts == SeqsUpTo({"a", "sur"}, MaxPlain)
\* the byte arrays passed to encryptBytes
ByteInputs == SeqsUpTo({"61", "ef"}, MaxPlain)
\* the keys passed: of 32 and 16 bytes, of 5 bytes, and empty
AesKeys == LegalKeys \cup {ShortKey, EmptyStr}
\* the values crypto.getRandomValues may put into the 12-byte IV
Ivs == {1, 2}
\* `new Uint8Array(12)`: the bytes of an IV
IvLen == 12
\* `slice(0, -16)` / `slice(-16)`: the bytes of the GCM tag
TagLen == 16
\* crypto.getRandomValues(new Uint8Array(12)) drawing the value n
RandomIv(n) == [i \in 1..IvLen |-> n]
\* how many arguments one call may take in the engine that runs the page
\* (String.fromCharCode(...ciphertext) passes one per byte): an engine
\* whose limit the longest ciphertext exceeds, and one it does not (the 12
\* and 16 arguments of the IV and the tag are below every engine's limit)
ArgLimits == {1, 3 * MaxPlain}

\* TextEncoder.encode: UTF-8, an unpaired surrogate is encoded as U+FFFD
RECURSIVE Utf8Encode(_)
Utf8Encode(s) ==
    IF s = <<>> THEN <<>>
    ELSE (IF Head(s) = "a" THEN <<"61">> ELSE <<"ef", "bf", "bd">>)
             \o Utf8Encode(Tail(s))

\* TextDecoder.decode: UTF-8, not fatal: what is no character becomes U+FFFD
RECURSIVE Utf8Decode(_)
Utf8Decode(b) ==
    IF b = <<>> THEN <<>>
    ELSE IF Head(b) = "61" THEN <<"a">> \o Utf8Decode(Tail(b))
    ELSE IF Len(b) >= 3 /\ SubSeq(b, 1, 3) = <<"ef", "bf", "bd">>
         THEN <<"fffd">> \o Utf8Decode(SubSeq(b, 4, Len(b)))
    ELSE <<"fffd">> \o Utf8Decode(Tail(b))

\* one byte of an AES-GCM output: the byte at position pos of the
\* ciphertext of a plaintext under key k and IV iv (b is the plaintext byte
\* it stands for), or byte pos of the tag (b = "tag") over the whole
\* plaintext `of`
Tok(b, k, iv, pos, of) == [b |-> b, k |-> k, iv |-> iv, pos |-> pos, of |-> of]

\* crypto.subtle.encrypt({name: "AES-GCM", iv}, key, bytes): the ciphertext,
\* as long as the plaintext, then the 16 bytes of the tag
GcmSeal(k, iv, bytes) ==
    [i \in 1..Len(bytes) |-> Tok(bytes[i], k, iv, i, <<>>)]
        \o [i \in 1..TagLen |-> Tok("tag", k, iv, i, bytes)]

\* crypto.subtle.decrypt({name: "AES-GCM", iv}, key, encrypted): the
\* plaintext when the last 16 bytes are the tag of the rest, a rejection
\* otherwise
GcmOpen(k, iv, enc) ==
    IF Len(enc) < TagLen THEN [ok |-> FALSE, bytes |-> <<>>]
    ELSE LET n == Len(enc) - TagLen
             bytes == [i \in 1..n |-> enc[i].b]
         IN  IF /\ \A i \in 1..TagLen : enc[n + i] = Tok("tag", k, iv, i, bytes)
                /\ \A i \in 1..n : enc[i] = Tok(bytes[i], k, iv, i, <<>>)
             THEN [ok |-> TRUE, bytes |-> bytes]
             ELSE [ok |-> FALSE, bytes |-> <<>>]

\* TypedArray.prototype.slice(start, end): a negative index counts from the
\* end, and both are clamped to the array
Slice(a, start, end) ==
    LET from == IF start < 0
                THEN (IF Len(a) + start < 0 THEN 0 ELSE Len(a) + start)
                ELSE (IF start > Len(a) THEN Len(a) ELSE start)
        to == IF end < 0
              THEN (IF Len(a) + end < 0 THEN 0 ELSE Len(a) + end)
              ELSE (IF end > Len(a) THEN Len(a) ELSE end)
    IN  SubSeq(a, from + 1, to)

\* `encryptedArray.slice(0, -16)`
CiphertextOf(encrypted) == Slice(encrypted, 0, 0 - TagLen)

\* a split that takes as many bytes for the tag as the IV has
TagOf_ivLength(encrypted) == Slice(encrypted, 0 - IvLen, Len(encrypted))

\* `encryptedArray.slice(-16)`
TagOf(encrypted) == Slice(encrypted, 0 - TagLen, Len(encrypted))

\* one field of the blob: Base64 text of the bytes v, or no such field
B64(v) == [t |-> "b64", v |-> v]
NoField == [t |-> "undefined", v |-> <<>>]
\* the blob {iv, data, tag}, and the empty object {}
AesBlob(iv, data, tag) == [iv |-> iv, data |-> data, tag |-> tag]
AesEmptyObj == AesBlob(NoField, NoField, NoField)

\* what a call gave its caller: the value val its promise resolved to
\* (rejected = FALSE) or a rejection (rejected = TRUE); caught tells whether
\* the function's catch block produced val, calls lists the provider calls
\* made
Returned(val, caught, calls) ==
    [val |-> val, rejected |-> FALSE, caught |-> caught, calls |-> calls]

\* an encryption that uses one fixed IV instead of the bytes just drawn
Encrypt_fixedIv(dataBytes, key, iv, limit) ==
    IF ~ValidKeyLen(key)
    THEN Returned(AesEmptyObj, TRUE, <<>>)
    ELSE LET encrypted == GcmSeal(key, RandomIv(1), dataBytes)
             calls == <<"importKey", "getRandomValues", "encrypt">>
         IN  IF Len(CiphertextOf(encrypted)) > limit
             THEN Returned(AesEmptyObj, TRUE, calls)
             ELSE Returned(AesBlob(B64(RandomIv(1)), B64(CiphertextOf(encrypted)),
                                   B64(TagOf(encrypted))), FALSE, calls)

\* the body shared by encryptStr and encryptBytes, from the key check on;
\* iv is what crypto.getRandomValues has drawn
Encrypt(dataBytes, key, iv, limit) ==
    IF ~ValidKeyLen(key)
    THEN Returned(AesEmptyObj, TRUE, <<>>)
    ELSE LET encrypted == GcmSeal(key, iv, dataBytes)
             ciphertext == CiphertextOf(encrypted)
             tag == TagOf(encrypted)
             calls == <<"importKey", "getRandomValues", "encrypt">>
         IN  IF Len(ciphertext) > limit
             THEN Returned(AesEmptyObj, TRUE, calls)
             ELSE Returned(AesBlob(B64(iv), B64(ciphertext), B64(tag)), FALSE, calls)

\* Eec.Aes.Gcm.encryptStr(data, key), with the IV drawn and the engine's limit
AesEncryptStr(data, key, iv, limit) == Encrypt(Utf8Encode(data), key, iv, limit)

\* Eec.Aes.Gcm.encryptBytes(data, key)
AesEncryptBytes(data, key, iv, limit) == Encrypt(data, key, iv, limit)

\* the body shared by decryptStr and decryptBytes, up to the provider's
\* answer: the key check, atob of the three fields, ciphertext and tag set
\* one after the other into encryptedData
Decrypt(data, iv, tag, key) ==
    IF ~ValidKeyLen(key)
    THEN [ok |-> FALSE, bytes |-> <<>>, calls |-> <<>>, encryptedData |-> <<>>]
    ELSE IF iv.t # "b64" \/ data.t # "b64" \/ tag.t # "b64"
    THEN [ok |-> FALSE, bytes |-> <<>>, calls |-> <<"importKey">>,
          encryptedData |-> <<>>]
    ELSE LET encryptedData == data.v \o tag.v
             opened == GcmOpen(key, iv.v, encryptedData)
         IN  [ok |-> opened.ok, bytes |-> opened.bytes,
              calls |-> <<"importKey", "decrypt">>,
              encryptedData |-> encryptedData]

\* Eec.Aes.Gcm.decryptStr(data, iv, tag, key)
AesDecryptStr(data, iv, tag, key) ==
    LET d == Decrypt(data, iv, tag, key)
    IN  IF d.ok THEN Returned(Utf8Decode(d.bytes), FALSE, d.calls)
        ELSE Returned(<<>>, TRUE, d.calls)

\* Eec.Aes.Gcm.decryptBytes(data, iv, tag, key)
AesDecryptBytes(data, iv, tag, key) ==
    LET d == Decrypt(data, iv, tag, key)
    IN  IF d.ok THEN Returned(d.bytes, FALSE, d.calls)
        ELSE Returned(<<>>, TRUE, d.calls)

\* a caller encrypts the plaintext p under the key k; drawn is what
\* crypto.getRandomValues returns during the call, used the (key, IV) pairs
\* of the encryptions made so far
AesEncrypt ==
    /\ aes.pc = "idle"
    /\ \E mode \in {"str", "bytes"}, k \in AesKeys, iv \in Ivs, limit \in ArgLimits :
          \E p \in (IF mode = "str" THEN Plaintexts ELSE ByteInputs) :
              LET r == IF mode = "str" THEN AesEncryptStr(p, k, RandomIv(iv), limit)
                       ELSE AesEncryptBytes(p, k, RandomIv(iv), limit)
              IN  aes' = [pc |-> "encrypted", mode |-> mode, p |-> p, k |-> k,
                          drawn |-> RandomIv(iv),
                          enc |-> r, data |-> r.val.data, iv |-> r.val.iv,
                          tag |-> r.val.tag, tamper |-> "none", dk |-> k,
                          out |-> Returned(<<>>, FALSE, <<>>),
                          used |-> IF r.caught THEN aes.used
                                   ELSE aes.used \cup {<<k, r.val.iv.v>>}]
    /\ UNCHANGED <<resVars, pemCall>>

\* the ways one field of a blob is altered before it is decrypted
Tampers == {"data", "iv", "tag"}

\* one field of the blob is altered: the ciphertext loses its last byte (or
\* gains one), the IV is another one, the tag is that of another plaintext
AesTamper ==
    /\ aes.pc = "encrypted"
    /\ aes.tamper = "none"
    /\ aes.data.t = "b64"
    /\ \E f \in Tampers :
          aes' = [aes EXCEPT
                    !.tamper = f,
                    !.data = IF f # "data" THEN @
                             ELSE IF Len(@.v) > 0
                                  THEN B64(SubSeq(@.v, 1, Len(@.v) - 1))
                                  ELSE B64(<<Tok("61", aes.k, aes.iv.v, 1, <<>>)>>),
                    !.iv = IF f # "iv" THEN @ ELSE B64(RandomIv(@.v[1] + 1)),
                    !.tag = IF f # "tag" THEN @
                            ELSE B64(TagOf(GcmSeal(aes.k, aes.iv.v, <<"bd">>)))]
    /\ UNCHANGED <<resVars, pemCall>>

\* the blob is decrypted with the key dk
AesDecrypt ==
    /\ aes.pc = "encrypted"
    /\ \E dk \in AesKeys :
          aes' = [aes EXCEPT
                    !.pc = "decrypted",
                    !.dk = dk,
                    !.out = IF aes.mode = "str"
                            THEN AesDecryptStr(aes.data, aes.iv, aes.tag, dk)
                            ELSE AesDecryptBytes(aes.data, aes.iv, aes.tag, dk)]
    /\ UNCHANGED <<resVars, pemCall>>

\* the caller has taken the outcome
AesReset ==
    /\ aes.pc = "decrypted"
    /\ aes' = [AesIdle EXCEPT !.used = aes.used]
    /\ UNCHANGED <<resVars, pemCall>>

NextAes == AesEncrypt \/ AesTamper \/ AesDecrypt \/ AesReset

\* every use of Eec.Aes.Gcm a caller can make, one at a time
SpecAes == Init /\ [][NextAes]_vars

\* C27: for every key of 16, 24 or 32 bytes and every plaintext p,
\* decrypting the untouched blob that encryptStr (encryptBytes) returned for
\* p, with the same key, returns p.
C27_RoundTrip ==
    (/\ aes.pc = "decrypted"
     /\ ValidKeyLen(aes.k) /\ aes.dk = aes.k
     /\ aes.tamper = "none") => aes.out.val = aes.p

\* C28: for every key of another byte length than 16, 24 or 32, encrypt and
\* decrypt make no provider call and report the failure to their caller as
\* an error, not as a value.
C28_InvalidKeyIsAnError ==
    /\ (aes.pc # "idle" /\ ~ValidKeyLen(aes.k)) =>
           aes.enc.calls = <<>> /\ aes.enc.rejected
    /\ (aes.pc = "decrypted" /\ ~ValidKeyLen(aes.dk)) =>
           aes.out.calls = <<>> /\ aes.out.rejected

\* C29: no failed decryptStr (decryptBytes) call yields a value that the
\* successful decryption of some blob yields.
C29_FailureDistinguishable ==
    (aes.pc = "decrypted" /\ aes.out.caught) =>
        \A p \in Plaintexts, b \in ByteInputs, k \in LegalKeys, iv \in Ivs :
            LET e == IF aes.mode = "str"
                     THEN AesEncryptStr(p, k, RandomIv(iv), 3 * MaxPlain)
                     ELSE AesEncryptBytes(b, k, RandomIv(iv), 3 * MaxPlain)
                d == IF aes.mode = "str"
                     THEN AesDecryptStr(e.val.data, e.val.iv, e.val.tag, k)
                     ELSE AesDecryptBytes(e.val.data, e.val.iv, e.val.tag, k)
            IN  ~d.caught => d.val # aes.out.val

\* C31: in every interleaving, a handshake whose init() has settled goes on
\* to export the public key of the keypair it generated itself, and it
\* decrypts the answer of /rs with the private key of that same keypair, the
\* one whose public key it submitted.
C31_HandshakeUsesOwnKeypair ==
    [][\A h \in Shakes :
          /\ (hpc[h] = "init" /\ hpc'[h] # "init") =>
                 /\ hpc'[h] = "export"
                 /\ hloc'[h].pem = hloc[h].inst
          /\ (hpc[h] = "answered" /\ hpc'[h] = "decrypt") =>
                 /\ S.rsa = hloc[h].pem
                 /\ S.rsa = hloc[h].inst]_vars

\* C32: with operations issued one at a time, a handshake has at no point
\* modified S.session_user, a request has at no point modified S.rsa or
\* S.pubPem, and a handshake that has returned false has modified nothing
\* but S.rsa and S.pubPem.
C32_OperationsWriteOwnFields ==
    /\ \A h \in Shakes :
          /\ hpc[h] # "idle" => S.session_user = hloc[h].S0.session_user
          /\ (hpc[h] = "done" /\ hloc[h].ret = False) =>
                 S.aes_key = hloc[h].S0.aes_key
    /\ \A c \in Calls :
          pc[c] # "idle" => /\ S.rsa = loc[c].S0.rsa
                            /\ S.pubPem = loc[c].S0.pubPem

\* a handshake entered after a request had stored a session identifier has
\* returned false, having replaced S.rsa and S.pubPem
C32_Witness ==
    \E h \in Shakes :
        /\ hpc[h] = "done" /\ hloc[h].ret = False
        /\ Truthy(hloc[h].S0.session_user)
        /\ S.rsa # hloc[h].S0.rsa
        /\ S.pubPem # hloc[h].S0.pubPem

\* C33: provided the transport settles every POST, every Res.api.work call
\* that was made eventually holds a three-element result for its caller and
\* every Res.rs.work call eventually holds true or false.
C33_EveryCallReturns ==
    /\ \A c \in Calls :
          (pc[c] # "idle") ~> (pc[c] = "done" /\ Len(loc[c].result) = 3)
    /\ \A h \in Shakes :
          (hpc[h] # "idle") ~> (hpc[h] = "done" /\ hloc[h].ret \in {True, False})

\* a request whose fetch was rejected has ended with the failure result
C33_Witness ==
    \E c \in Calls :
        /\ pc[c] = "done"
        /\ loc[c].res.kind = "neterr"
        /\ loc[c].result = FailResult(copy)

\* C34: no successful encryption uses, with its key, an IV that an earlier
\* successful encryption under that key has used.
C34_IvNeverReused ==
    [][(aes.pc = "idle" /\ aes'.pc = "encrypted" /\ ~aes'.enc.caught) =>
           <<aes'.k, aes'.enc.val.iv.v>> \notin aes.used]_vars

\* C34 (amended): every successful encryption uses the 12 bytes that
\* crypto.getRandomValues drew during that very call: they are the iv field
\* of the blob and the IV every byte of ciphertext and tag was computed
\* with.
C34_IvDrawnPerCall ==
    (aes.pc = "encrypted" /\ aes.tamper = "none" /\ ~aes.enc.caught) =>
        /\ Len(aes.drawn) = IvLen
        /\ aes.enc.val.iv = B64(aes.drawn)
        /\ \A i \in 1..Len(aes.enc.val.data.v) : aes.enc.val.data.v[i].iv = aes.drawn
        /\ \A i \in 1..Len(aes.enc.val.tag.v) : aes.enc.val.tag.v[i].iv = aes.drawn

\* an encryption has succeeded under a key that an earlier encryption used
\* with another IV
C34_Witness ==
    /\ aes.pc = "encrypted" /\ aes.tamper = "none" /\ ~aes.enc.caught
    /\ \E n \in Ivs : RandomIv(n) # aes.drawn /\ <<aes.k, RandomIv(n)>> \in aes.used

\* the bytes handed to the provider for the plaintext of the current call
AesPlainBytes == IF aes.mode = "str" THEN Utf8Encode(aes.p) ELSE aes.p

\* C35: for every provider output (always 16 bytes or more), the blob of a
\* successful encryption holds in data all its bytes but the last 16 and in
\* tag exactly its last 16 bytes, decryption's encryptedData (ciphertext
\* followed by tag) is the provider output byte for byte, and the blob's iv
\* has 12 bytes.
C35_SplitAndRecombine ==
    (aes.pc = "encrypted" /\ aes.tamper = "none" /\ ~aes.enc.caught) =>
        LET output == GcmSeal(aes.k, aes.drawn, AesPlainBytes)
            n == Len(output)
        IN  /\ n >= TagLen
            /\ aes.data.v = SubSeq(output, 1, n - TagLen)
            /\ aes.tag.v = SubSeq(output, n - TagLen + 1, n)
            /\ Len(aes.tag.v) = TagLen
            /\ Len(aes.iv.v) = IvLen
            /\ Decrypt(aes.data, aes.iv, aes.tag, aes.k).encryptedData = output

\* a plaintext of several bytes has been encrypted and split
C35_Witness ==
    /\ aes.pc = "encrypted" /\ aes.tamper = "none" /\ ~aes.enc.caught
    /\ Len(aes.data.v) > 1
    /\ Len(aes.tag.v) = TagLen
    /\ Len(aes.iv.v) = IvLen


\* ---------------------------------------------------------------------
\* RSA.getPublicKey_pem on its own.  Strings are sequences of character
\* codes.

\* the length in bytes of the greatest exported key considered; the
\* SubjectPublicKeyInfo of a 2048-bit RSA key with exponent 65537 has 294
MaxSpki == 294

\* the fold width of the regular expression /.{1,64}/g
LineWidth == 64

\* "\n"
Newline == 10

\* "="
Pad == 61

\* "-----BEGIN PUBLIC KEY-----"
PemHeader ==
    <<45, 45, 45, 45, 45, 66, 69, 71, 73, 78, 32, 80, 85, 66, 76, 73, 67,
      32, 75, 69, 89, 45, 45, 45, 45, 45>>

\* "-----END PUBLIC KEY-----"
PemFooter ==
    <<45, 45, 45, 45, 45, 69, 78, 68, 32, 80, 85, 66, 76, 73, 67, 32, 75,
      69, 89, 45, 45, 45, 45, 45>>

\* the exported keys considered: n bytes, the i-th being seed + 37 i
SpkiSeeds == {0, 101}

SpkiBytes(n, seed) == [i \in 1..n |-> (seed + 37 * i) % 256]

\* the character btoa writes for a 6-bit group: A-Z, a-z, 0-9, +, /
B64Char(x) ==
    IF x < 26 THEN 65 + x
    ELSE IF x < 52 THEN 71 + x
    ELSE IF x < 62 THEN x - 4
    ELSE IF x = 62 THEN 43
    ELSE 47

\* btoa(String.fromCharCode(...bytes)): every three bytes give four
\* characters, and "=" pads the last group where its bytes are missing
Btoa(bytes) ==
    LET n == Len(bytes)
        Byte(i) == IF i <= n THEN bytes[i] ELSE 0
        Char(j) ==
            LET g == (j - 1) \div 4
                r == (j - 1) % 4
                b1 == Byte(3 * g + 1)
                b2 == Byte(3 * g + 2)
                b3 == Byte(3 * g + 3)
            IN  IF r = 0 THEN B64Char(b1 \div 4)
                ELSE IF r = 1 THEN B64Char((b1 % 4) * 16 + b2 \div 16)
                ELSE IF r = 2 THEN
                    IF 3 * g + 2 > n THEN Pad
                    ELSE B64Char((b2 % 16) * 4 + b3 \div 64)
                ELSE IF 3 * g + 3 > n THEN Pad
                ELSE B64Char(b3 % 64)
    IN  [j \in 1..(4 * ((n + 2) \div 3)) |-> Char(j)]

RECURSIVE Match_width76(_)
\* a fold at the width of MIME, 76
Match_width76(str) ==
    IF Len(str) <= 76 THEN <<str>>
    ELSE <<SubSeq(str, 1, 76)>> \o Match_width76(SubSeq(str, 77, Len(str)))

RECURSIVE Match(_)
\* str.match(/.{1,64}/g) for a str of one line and at least one character:
\* each match is greedy and starts where the one before ended
Match(str) ==
    IF Len(str) <= LineWidth THEN <<str>>
    ELSE <<SubSeq(str, 1, LineWidth)>>
         \o Match(SubSeq(str, LineWidth + 1, Len(str)))

RECURSIVE Join(_, _)
\* lines.join(sep)
Join(lines, sep) ==
    IF Len(lines) = 0 THEN <<>>
    ELSE IF Len(lines) = 1 THEN lines[1]
    ELSE lines[1] \o <<sep>> \o Join(Tail(lines), sep)

\* the body of getPublicKey_pem after the export: match returns null for the
\* empty string, and the call of join on it throws into the catch block
GetPublicKeyPem(spki) ==
    LET b64 == Btoa(spki)
    IN  IF Len(b64) = 0
        THEN [pc |-> "thrown", spki |-> spki, ret |-> <<>>]
        ELSE [pc |-> "returned", spki |-> spki,
              ret |-> PemHeader \o <<Newline>> \o Join(Match(b64), Newline)
                      \o <<Newline>> \o PemFooter]

\* a call of getPublicKey_pem: on an instance whose init has not run,
\* this.key is null and reading this.key.publicKey throws; otherwise
\* exportKey gives the SubjectPublicKeyInfo
PemExport ==
    /\ pemCall.pc = "idle"
    /\ \E hasKey \in BOOLEAN, n \in 1..MaxSpki, seed \in SpkiSeeds :
          pemCall' = IF hasKey
                     THEN GetPublicKeyPem(SpkiBytes(n, seed))
                     ELSE [pc |-> "thrown", spki |-> <<>>, ret |-> <<>>]
    /\ UNCHANGED <<resVars, aes>>

\* the caller is done with the result
PemReset ==
    /\ pemCall.pc # "idle"
    /\ pemCall' = PemIdle
    /\ UNCHANGED <<resVars, aes>>

NextPem == PemExport \/ PemReset

\* every call of RSA.getPublicKey_pem a caller can make, one at a time
SpecPem == Init /\ [][NextPem]_vars

RECURSIVE SplitAt(_, _)
\* str.split(sep)
SplitAt(str, sep) ==
    IF \A i \in 1..Len(str) : str[i] # sep THEN <<str>>
    ELSE LET i == CHOOSE j \in 1..Len(str) :
                      str[j] = sep /\ \A k \in 1..(j - 1) : str[k] # sep
         IN  <<SubSeq(str, 1, i - 1)>> \o SplitAt(SubSeq(str, i + 1, Len(str)), sep)

RECURSIVE Concat(_)
Concat(lines) ==
    IF Len(lines) = 0 THEN <<>> ELSE lines[1] \o Concat(Tail(lines))

\* C36: what getPublicKey_pem returns is, line by line, the fixed BEGIN
\* line, the Base64 of the exported key folded so that every body line but
\* the last has exactly 64 characters and the last has 1 to 64, and the fixed
\* END line; the body lines concatenated are the Base64 text.
C36_PemFolded ==
    pemCall.pc = "returned" =>
        LET lines == SplitAt(pemCall.ret, Newline)
            n == Len(lines)
            body == SubSeq(lines, 2, n - 1)
        IN  /\ n >= 3
            /\ lines[1] = PemHeader
            /\ lines[n] = PemFooter
            /\ \A i \in 1..(Len(body) - 1) : Len(body[i]) = LineWidth
            /\ Len(body[Len(body)]) \in 1..LineWidth
            /\ Concat(body) = Btoa(pemCall.spki)

\* a key has been exported whose Base64 text fills several lines and leaves
\* a shorter last one
C36_Witness ==
    /\ pemCall.pc = "returned"
    /\ LET lines == SplitAt(pemCall.ret, Newline)
       IN  /\ Len(lines) >= 5
           /\ Len(lines[Len(lines) - 1]) < LineWidth

====
